---- MODULE Spec2Model ----
(***************************************************************************)
(* TheCareBot, services/langgraph-python: the folio store client           *)
(* (tools/supabase_client.py) and the invoice generation workflow          *)
(* (graphs/invoice_workflow.py, state/workflow_state.py), and the autofill *)
(* patterns (tools/supabase_client.py, agents/autofill_predictor.py).      *)
(*                                                                         *)
(* The specifications share the variables:                                 *)
(*   Spec       one execute_invoice_generation at a time, node by node;    *)
(*   LiveSpec   Spec with weak fairness of the engine's steps;             *)
(*   FolioSpec  NumCallers concurrent get_next_folio calls, one database   *)
(*              request per step;                                          *)
(*   ValSpec    validate_invoice_data alone, on every request of a bounded *)
(*              family;                                                    *)
(*   XmlSpec    ValSpec followed by generate_xml_dte;                      *)
(*   PatternSpec  NumCallers concurrent increment_pattern_frequency calls, *)
(*              one database request per step;                             *)
(*   AutofillSpec  predict_autofill_simple on every pattern list of a      *)
(*              bounded family.                                            *)
(*                                                                         *)
(* Python's Optional values are sequences of length at most one: None is   *)
(* << >> and a value v is <<v>>.  Money is counted in hundredths of a      *)
(* peso, so round(x, 2) is a rounding to an integer.                       *)
(***************************************************************************)
EXTENDS Integers, Sequences, FiniteSets, TLC

VARIABLES
    folios_asignados,   \* table folios_asignados: row id -> row
    cpc,                \* FolioSpec: where each get_next_folio call stands
    ctipo,              \* FolioSpec: the tipo_dte each call was made with
    folio_range,        \* FolioSpec: the row each call read (its local folio_range)
    cret,               \* FolioSpec: what each call returned
    cerr,               \* FolioSpec: the exception each call caught ("" for none)
    pc,                 \* Spec: the node the workflow engine runs next
    state,              \* Spec: the InvoiceWorkflowState of the running invocation
    result,             \* Spec: what execute_invoice_generation returned
    gnf,                \* Spec: the outcome of assign_folio's get_next_folio call
    runs,               \* Spec: invocations started so far
    documentos,         \* tables boletas_electronicas / facturas_electronicas
    logs_sii,           \* table logs_sii
    autofill_patterns,  \* table autofill_patterns: the rows in insertion order
    ipf,                \* PatternSpec: where each increment_pattern_frequency call stands
    autofill            \* AutofillSpec: predict_autofill_simple's arguments and result

fvars == <<cpc, ctipo, folio_range, cret, cerr>>
wvars == <<pc, state, result, gnf, runs, documentos, logs_sii>>
avars == <<autofill_patterns, ipf, autofill>>

------------------------------------------------------------------------------
(* Bounds *)

NumCallers == 3         \* concurrent get_next_folio calls
FolioSpan == 2          \* the active range holds FIRST_FOLIO+1 .. FIRST_FOLIO+FolioSpan
MaxRuns == 2            \* invocations of execute_invoice_generation
DemoSamples == 1        \* values tried from the low end of the demo band (besides its top)
MaxItems == 2           \* ValSpec: line items of a request
MaxPatterns == 6        \* AutofillSpec: patterns handed to predict_autofill_simple

------------------------------------------------------------------------------
(* Optional values *)

None == << >>
Some(v) == <<v>>
Val(o) == o[1]

------------------------------------------------------------------------------
(* round() *)

\* round(x, 2) of the float x = n/d hundredths: the nearest hundredth.  When
\* the decimal value lies exactly halfway the binary float lies on either side
\* of it (round(0.5 * 0.19, 2) is 0.1, round(2.5 * 0.19, 2) is 0.47), so the
\* result goes up or down: tie_up tells which.
RoundDiv(n, d, tie_up) ==
    LET q == n \div d
        r == n % d
    IN IF 2 * r < d THEN q
       ELSE IF 2 * r > d THEN q + 1
       ELSE IF tie_up THEN q + 1 ELSE q

------------------------------------------------------------------------------
(* The folio table and get_next_folio *)

EMPRESA_RUT == "12345678-9"
FIRST_FOLIO == 100
TiposDTE == {33, 39}
Callers == 1..NumCallers
RangeIds == {1, 2}

\* mutant: the select does not filter on tipo_dte
ActiveRanges_AnyTipo(t, tipo_dte, rut_empresa) ==
    {id \in DOMAIN t : /\ t[id].rut_empresa = rut_empresa
                       /\ t[id].estado = "activo"}

\* .eq("tipo_dte").eq("rut_empresa").eq("estado", "activo")
ActiveRanges(t, tipo_dte, rut_empresa) ==
    {id \in DOMAIN t : /\ t[id].tipo_dte = tipo_dte
                       /\ t[id].rut_empresa = rut_empresa
                       /\ t[id].estado = "activo"}

\* .order("folio_actual", desc=False).limit(1): the rows the query may return
SelectActive(t, tipo_dte, rut_empresa) ==
    LET A == ActiveRanges(t, tipo_dte, rut_empresa)
    IN {id \in A : \A j \in A : t[id].folio_actual <= t[j].folio_actual}

\* mutant: the current folio is handed out again
NextFolio_Current(range) == range.folio_actual

NextFolio(range) == range.folio_actual + 1

\* mutant: the bound is checked on the current folio (folio_actual > folio_hasta)
IsExhausted_Current(range) == range.folio_actual > range.folio_hasta

IsExhausted(range) == NextFolio(range) > range.folio_hasta

\* mutant: the exhaustion mark is not written
MarkExhausted_NotWritten(t, id) == t

MarkExhausted(t, id) == [t EXCEPT ![id].estado = "agotado"]

\* mutant: the new counter is not written
UpdateFolioActual_NotWritten(t, id, next_folio) == t

UpdateFolioActual(t, id, next_folio) == [t EXCEPT ![id].folio_actual = next_folio]

\* A row as the select returns it: the table row and its id.
Row(t, id) == [id |-> id,
               folio_actual |-> t[id].folio_actual,
               folio_hasta |-> t[id].folio_hasta]

NoRow == [id |-> 0, folio_actual |-> 0, folio_hasta |-> 0]

------------------------------------------------------------------------------
(* FolioSpec: concurrent get_next_folio calls, one database request a step *)

\* The select.  A store error or an empty answer raises inside the try and the
\* call returns None; otherwise the call holds the row it read.
GnfSelect(c) ==
    /\ cpc[c] = "idle"
    /\ \E tipo_dte \in TiposDTE, db_up \in BOOLEAN :
         LET rows == SelectActive(folios_asignados, tipo_dte, EMPRESA_RUT)
         IN /\ ctipo' = [ctipo EXCEPT ![c] = tipo_dte]
            /\ IF db_up /\ rows # {}
               THEN \E id \in rows :
                      /\ folio_range' = [folio_range EXCEPT ![c] = Row(folios_asignados, id)]
                      /\ cpc' = [cpc EXCEPT ![c] = "selected"]
                      /\ UNCHANGED <<cret, cerr>>
               ELSE /\ cpc' = [cpc EXCEPT ![c] = "done"]
                    /\ cret' = [cret EXCEPT ![c] = None]
                    /\ cerr' = [cerr EXCEPT ![c] = IF db_up THEN "No active folios found"
                                                   ELSE "store error"]
                    /\ folio_range' = folio_range
    /\ UNCHANGED folios_asignados
    /\ UNCHANGED wvars
    /\ UNCHANGED avars

\* The update: the exhaustion mark, or the new folio_actual computed from the
\* row read earlier.
GnfUpdate(c) ==
    /\ cpc[c] = "selected"
    /\ IF IsExhausted(folio_range[c])
       THEN /\ folios_asignados' = MarkExhausted(folios_asignados, folio_range[c].id)
            /\ cret' = [cret EXCEPT ![c] = None]
            /\ cerr' = [cerr EXCEPT ![c] = "Folios exhausted"]
       ELSE /\ folios_asignados' =
                 UpdateFolioActual(folios_asignados, folio_range[c].id, NextFolio(folio_range[c]))
            /\ cret' = [cret EXCEPT ![c] = Some(NextFolio(folio_range[c]))]
            /\ cerr' = cerr
    /\ cpc' = [cpc EXCEPT ![c] = "done"]
    /\ UNCHANGED <<ctipo, folio_range>>
    /\ UNCHANGED wvars
    /\ UNCHANGED avars

------------------------------------------------------------------------------
(* get_next_folio as one call, for a caller that runs alone *)

\* db_up = FALSE: the store raises on the call's first request.
GetNextFolio(t, tipo_dte, rut_empresa, db_up) ==
    LET rows == SelectActive(t, tipo_dte, rut_empresa)
    IN IF ~db_up
       THEN [ret |-> None, error |-> "store error", table |-> t]
       ELSE IF rows = {}
       THEN [ret |-> None, error |-> "No active folios found", table |-> t]
       ELSE LET id == CHOOSE i \in rows : TRUE
                range == Row(t, id)
            IN IF IsExhausted(range)
               THEN [ret |-> None, error |-> "Folios exhausted",
                     table |-> MarkExhausted(t, id)]
               ELSE [ret |-> Some(NextFolio(range)), error |-> "",
                     table |-> UpdateFolioActual(t, id, NextFolio(range))]

NoCall == [ret |-> None, error |-> ""]

------------------------------------------------------------------------------
(* PatternSpec: concurrent increment_pattern_frequency calls for one         *)
(* (doctor_id, campo), one database request a step                           *)

\* The values the doctor selects
Valores == {"Limpieza dental", "Consulta general"}

\* A call: its valor, the row its select returned (None: no row) and what it
\* returned to its caller (None: still running)
IpfIdle == [pc |-> "idle", valor |-> "", existing |-> None, ret |-> None]

\* .eq("doctor_id").eq("campo").eq("valor"): the ids of the matching rows
ExistingRows(t, valor) == {id \in 1..Len(t) : t[id].valor = valor}

\* The select.  existing.data[0] is any of the matching rows (the query has no
\* order); a store error ends the call with False.
IpfSelect(c) ==
    /\ ipf[c].pc = "idle"
    /\ \E valor \in Valores, db_up \in BOOLEAN :
         LET rows == ExistingRows(autofill_patterns, valor)
         IN IF ~db_up
            THEN ipf' = [ipf EXCEPT ![c] = [pc |-> "done", valor |-> valor,
                                            existing |-> None, ret |-> Some(FALSE)]]
            ELSE IF rows = {}
            THEN ipf' = [ipf EXCEPT ![c] = [pc |-> "selected", valor |-> valor,
                                            existing |-> None, ret |-> None]]
            ELSE \E id \in rows :
                   ipf' = [ipf EXCEPT ![c] =
                             [pc |-> "selected", valor |-> valor,
                              existing |-> Some([id |-> id,
                                                 frecuencia |-> autofill_patterns[id].frecuencia]),
                              ret |-> None]]
    /\ UNCHANGED autofill_patterns
    /\ UNCHANGED autofill
    /\ UNCHANGED folios_asignados
    /\ UNCHANGED fvars
    /\ UNCHANGED wvars

\* .update({"frecuencia": current_freq + 1, ...}).eq("id", pattern_id)
UpdatePattern(t, existing) ==
    [t EXCEPT ![existing.id].frecuencia = existing.frecuencia + 1]

\* .insert({..., "valor": valor, "frecuencia": 1, ...})
InsertPattern(t, valor) == Append(t, [valor |-> valor, frecuencia |-> 1])

\* The write: the update of the row read earlier, or the insert of a new row
IpfWrite(c) ==
    /\ ipf[c].pc = "selected"
    /\ autofill_patterns' = IF ipf[c].existing # None
                             THEN UpdatePattern(autofill_patterns, Val(ipf[c].existing))
                             ELSE InsertPattern(autofill_patterns, ipf[c].valor)
    /\ ipf' = [ipf EXCEPT ![c].pc = "done", ![c].ret = Some(TRUE)]
    /\ UNCHANGED autofill
    /\ UNCHANGED folios_asignados
    /\ UNCHANGED fvars
    /\ UNCHANGED wvars

------------------------------------------------------------------------------
(* agents/autofill_predictor.py.  Strings are sequences of characters; a     *)
(* score is a fraction [num, den]; a confidence is counted in hundredths.    *)

CtxKeys == {"day_of_week", "tipo_consulta", "period_of_day"}

\* A context dict: key -> value, Absent for a key the dict does not hold
Absent == ""
Contexto(day_of_week, tipo_consulta, period_of_day) ==
    [day_of_week |-> day_of_week, tipo_consulta |-> tipo_consulta,
     period_of_day |-> period_of_day]
KeysOf(contexto) == {k \in CtxKeys : contexto[k] # Absent}

Frac(num, den) == [num |-> num, den |-> den]

Min(a, b) == IF a <= b THEN a ELSE b
Max(a, b) == IF a >= b THEN a ELSE b

\* str.lower() on the characters in use
Lower(ch) == CASE ch = "A" -> "a" [] ch = "B" -> "b" [] OTHER -> ch
LowerStr(str) == [i \in 1..Len(str) |-> Lower(str[i])]

\* SequenceMatcher.get_matching_blocks: the longest common block (the one
\* that starts earliest in a, then earliest in b), then the same to its left
\* and to its right; the characters matched in all
RECURSIVE MatchingChars(_, _)
MatchingChars(a, b) ==
    LET Blocks == {m \in (1..Len(a)) \X (1..Len(b)) \X (1..Min(Len(a), Len(b))) :
                     /\ m[1] + m[3] - 1 <= Len(a)
                     /\ m[2] + m[3] - 1 <= Len(b)
                     /\ SubSeq(a, m[1], m[1] + m[3] - 1) = SubSeq(b, m[2], m[2] + m[3] - 1)}
    IN IF Blocks = {} THEN 0
       ELSE LET best == CHOOSE m \in Blocks : \A o \in Blocks :
                           \/ m[3] > o[3]
                           \/ m[3] = o[3] /\ m[1] < o[1]
                           \/ m[3] = o[3] /\ m[1] = o[1] /\ m[2] <= o[2]
            IN best[3]
               + MatchingChars(SubSeq(a, 1, best[1] - 1), SubSeq(b, 1, best[2] - 1))
               + MatchingChars(SubSeq(a, best[1] + best[3], Len(a)),
                               SubSeq(b, best[2] + best[3], Len(b)))

\* SequenceMatcher(None, a.lower(), b.lower()).ratio(): 2.0 * M / T, 1.0 for
\* two empty strings
calculate_string_similarity(a, b) ==
    IF Len(a) + Len(b) = 0 THEN Frac(1, 1)
    ELSE Frac(2 * MatchingChars(LowerStr(a), LowerStr(b)), Len(a) + Len(b))

\* mutant: every key of the pattern's context counts, comparable or not
calculate_context_match_score_AllKeys(pattern_context, current_context) ==
    IF KeysOf(pattern_context) = {} \/ KeysOf(current_context) = {} THEN Frac(1, 2)
    ELSE Frac(Cardinality({k \in KeysOf(pattern_context) \cap KeysOf(current_context) :
                             pattern_context[k] = current_context[k]}),
              Cardinality(KeysOf(pattern_context)))

calculate_context_match_score(pattern_context, current_context) ==
    LET comparable == KeysOf(pattern_context) \cap KeysOf(current_context)
        matches == {k \in comparable : pattern_context[k] = current_context[k]}
    IN IF KeysOf(pattern_context) = {} \/ KeysOf(current_context) = {} THEN Frac(1, 2)
       ELSE IF comparable = {} THEN Frac(1, 2)
       ELSE Frac(Cardinality(matches), Cardinality(comparable))

\* current_input.strip() == ""
IsBlank(str) == \A i \in 1..Len(str) : str[i] = " "

\* min(frequency / max(max_frequency, 1), 1.0)
FrequencyScore(frequency, max_frequency) ==
    IF frequency >= Max(max_frequency, 1) THEN Frac(1, 1)
    ELSE Frac(frequency, Max(max_frequency, 1))

SimilarityScore(pattern, current_input) ==
    IF IsBlank(current_input) THEN Frac(1, 1)
    ELSE calculate_string_similarity(current_input, pattern.valor)

FREQUENCY_WEIGHT == 40
CONTEXT_WEIGHT == 30
SIMILARITY_WEIGHT == 30

\* The weighted combination, in hundredths, as a fraction
WeightedScore(pattern, current_input, current_context, max_frequency) ==
    LET f == FrequencyScore(pattern.frecuencia, max_frequency)
        c == calculate_context_match_score(pattern.contexto, current_context)
        s == SimilarityScore(pattern, current_input)
    IN Frac(FREQUENCY_WEIGHT * f.num * c.den * s.den
              + CONTEXT_WEIGHT * c.num * f.den * s.den
              + SIMILARITY_WEIGHT * s.num * f.den * c.den,
            f.den * c.den * s.den)

\* round(confidence, 2); tie_up: which way a score that lies halfway goes
\* (see RoundDiv)
calculate_confidence_score(pattern, current_input, current_context, max_frequency, tie_up) ==
    LET w == WeightedScore(pattern, current_input, current_context, max_frequency)
    IN RoundDiv(w.num, w.den, tie_up)

\* max(p.get("frecuencia", 1) for p in patterns)
MaxFrequency(patterns) ==
    CHOOSE f \in {patterns[i].frecuencia : i \in 1..Len(patterns)} :
        \A i \in 1..Len(patterns) : patterns[i].frecuencia <= f

CONFIDENCE_THRESHOLD == 60
HIGH_CONFIDENCE == 80
MAX_PREDICTIONS == 5

\* The dict appended for a pattern of the given confidence
Prediction(pattern, confidence, contexto) ==
    LET c == calculate_context_match_score(pattern.contexto, contexto)
    IN [valor |-> pattern.valor, confidence |-> confidence,
        frecuencia |-> pattern.frecuencia,
        contexto_match |-> 10 * c.num > 7 * c.den,
        icon |-> IF confidence >= HIGH_CONFIDENCE THEN "robot+chart" ELSE "robot"]

\* The confidence of each pattern; ties_up: the patterns whose halfway score
\* round() takes up
Confidences(patterns, current_value, contexto, ties_up) ==
    [i \in 1..Len(patterns) |->
        calculate_confidence_score(patterns[i], current_value, contexto,
                                   MaxFrequency(patterns), patterns[i] \in ties_up)]

\* The loop: the predictions of the patterns at or above the threshold, in
\* the patterns' order
RECURSIVE Scored(_, _, _, _)
Scored(patterns, confidences, contexto, i) ==
    IF i > Len(patterns) THEN << >>
    ELSE (IF confidences[i] >= CONFIDENCE_THRESHOLD
          THEN <<Prediction(patterns[i], confidences[i], contexto)>> ELSE << >>)
         \o Scored(patterns, confidences, contexto, i + 1)

\* list.sort(key=confidence, reverse=True): stable, equal confidences keep
\* their order
RECURSIVE SortByConfidence(_)
SortByConfidence(predictions) ==
    IF predictions = << >> THEN << >>
    ELSE LET front == SortByConfidence(SubSeq(predictions, 1, Len(predictions) - 1))
             last == predictions[Len(predictions)]
             ahead == {i \in 1..Len(front) : front[i].confidence >= last.confidence}
         IN SubSeq(front, 1, Cardinality(ahead)) \o <<last>>
            \o SubSeq(front, Cardinality(ahead) + 1, Len(front))

\* mutant: the sorted list is returned whole
TopPredictions_All(predictions) == predictions

\* predictions[:5]
TopPredictions(predictions) == SubSeq(predictions, 1, Min(MAX_PREDICTIONS, Len(predictions)))

predict_autofill_simple(patterns, current_value, contexto, ties_up) ==
    IF patterns = << >> THEN << >>
    ELSE TopPredictions(SortByConfidence(
             Scored(patterns, Confidences(patterns, current_value, contexto, ties_up),
                    contexto, 1)))

\* AutofillSpec: the pattern rows, inputs and contexts tried
PatternRows ==
    {[valor |-> <<"a", "b">>, frecuencia |-> 4,
      contexto |-> Contexto("lunes", "control", Absent)],
     [valor |-> <<"b", "a">>, frecuencia |-> 2, contexto |-> Contexto("martes", Absent, Absent)],
     [valor |-> <<"c">>, frecuencia |-> 1, contexto |-> Contexto(Absent, "control", Absent)]}

PatternLists == UNION {[1..n -> PatternRows] : n \in 0..MaxPatterns}

CurrentValues == {<< >>, <<"a", "b">>}

Contextos == {Contexto("lunes", Absent, Absent), Contexto("lunes", "urgencia", Absent),
              Contexto(Absent, Absent, Absent)}

NoPrediction == [called |-> FALSE, patterns |-> << >>, current_value |-> << >>,
                 contexto |-> Contexto(Absent, Absent, Absent),
                 confidences |-> << >>, predictions |-> << >>]

\* The patterns whose weighted score lies halfway between two hundredths
TiedPatterns(patterns, current_value, contexto) ==
    {patterns[i] : i \in {j \in 1..Len(patterns) :
        LET w == WeightedScore(patterns[j], current_value, contexto, MaxFrequency(patterns))
        IN 2 * (w.num % w.den) = w.den}}

\* One call of predict_autofill_simple
Predict ==
    /\ ~autofill.called
    /\ \E ties_up \in SUBSET TiedPatterns(autofill.patterns, autofill.current_value,
                                           autofill.contexto) :
         autofill' = [autofill EXCEPT
            !.called = TRUE,
            !.confidences = IF autofill.patterns = << >> THEN << >>
                            ELSE Confidences(autofill.patterns, autofill.current_value,
                                             autofill.contexto, ties_up),
            !.predictions = predict_autofill_simple(autofill.patterns, autofill.current_value,
                                                    autofill.contexto, ties_up)]
    /\ UNCHANGED <<autofill_patterns, ipf>>
    /\ UNCHANGED folios_asignados
    /\ UNCHANGED fvars
    /\ UNCHANGED wvars

------------------------------------------------------------------------------
(* Requests *)

ItemKeys == {"descripcion", "cantidad", "precio", "total"}

\* A line item: the keys its dict holds and their values (precio and total in
\* hundredths).  numeric = FALSE: cantidad holds a value that is not a number.
Item(has, cantidad, precio, total, numeric) ==
    [has |-> has, descripcion |-> "Limpieza dental", cantidad |-> cantidad,
     precio |-> precio, total |-> total, numeric |-> numeric]

Request(tipo_dte, receptor_rut, detalles) ==
    [doctor_id |-> "doctor-1", tipo_dte |-> tipo_dte,
     receptor_rut |-> receptor_rut, detalles |-> detalles]

ReqBoleta == Request(39, "20.210.808-K", <<Item(ItemKeys, 1, 3500000, 3500000, TRUE)>>)
ReqFactura == Request(33, "76.123.456-7", <<Item(ItemKeys, 2, 1000000, 2000000, TRUE)>>)
ReqInvalid == Request(39, "1-9", <<Item(ItemKeys, 1, 3500000, 3500000, TRUE),
                                   Item(ItemKeys, 0, 0, 0, TRUE)>>)
ReqEmpty == Request(39, "20.210.808-K", << >>)
ReqNoTotal == Request(39, "20.210.808-K",
                      <<Item(ItemKeys \ {"total"}, 1, 3500000, 0, TRUE)>>)
ReqBadQuantity == Request(39, "20.210.808-K",
                          <<Item(ItemKeys, 0, 3500000, 3500000, FALSE)>>)

Requests == {ReqBoleta, ReqFactura, ReqInvalid, ReqEmpty, ReqNoTotal, ReqBadQuantity}

NoRequest == Request(0, "", << >>)

\* ValSpec: the requests validate_invoice_data is tried on.  The RUTs have 0,
\* 3, 8, 9 and 12 characters; the totals make VAT amounts that round down
\* (100.90), up (0.40) and that lie halfway (0.50).
ValRuts == {"", "1-9", "123456-7", "1234567-8", "20.210.808-K"}

ValItems ==
    {Item(ItemKeys, cantidad, precio, total, TRUE) :
        cantidad \in {-1, 0, 1}, precio \in {0, 2000}, total \in {40, 50, 10090}}
    \cup {Item(ItemKeys \ {"cantidad"}, 0, 2000, 40, TRUE),
          Item(ItemKeys \ {"precio"}, 1, 0, 40, TRUE),
          Item(ItemKeys, 0, 2000, 40, FALSE)}

ValDetalles == UNION {[1..n -> ValItems] : n \in 0..MaxItems}

ValRequests == {Request(39, rut, detalles) : rut \in ValRuts, detalles \in ValDetalles}

------------------------------------------------------------------------------
(* The workflow state and its channels *)

\* execute_invoice_generation's initial_state
InitialState(req) ==
    [doctor_id |-> req.doctor_id, tipo_dte |-> req.tipo_dte,
     receptor_rut |-> req.receptor_rut, detalles |-> req.detalles,
     folio |-> None, xml_dte |-> None, xml_signed |-> None, pdf_bytes |-> None,
     pdf_url |-> None, track_id |-> None,
     monto_neto |-> None, monto_iva |-> None, monto_total |-> None,
     status |-> "pending", errors |-> << >>, confidence_score |-> None]

\* The graph writes a node's returned dict into the state: every key takes the
\* returned value, except errors, whose channel is Annotated[list[str],
\* operator.add] and takes old + returned.
\* mutant: the errors channel keeps only the entries the node added
ApplyUpdate_NewOnly(old, update) ==
    [update EXCEPT !.errors = SubSeq(update.errors, Len(old.errors) + 1, Len(update.errors))]

ApplyUpdate(old, update) == [update EXCEPT !.errors = old.errors \o update.errors]

\* {**state, "status": "failed", "errors": state.get("errors", []) + [msgs]}
Failed(st, msgs) == [st EXCEPT !.status = "failed", !.errors = st.errors \o msgs]

should_continue(st) == IF st.status = "failed" THEN "END" ELSE "continue"

\* The edges of create_invoice_workflow: the node that runs after `node`
\* has left the state st.
NextNode(node, st) ==
    CASE node = "assign_folio" ->
           IF should_continue(st) = "END" THEN "END" ELSE "validate_data"
      [] node = "validate_data" ->
           IF should_continue(st) = "END" THEN "END" ELSE "generate_xml"
      [] node = "generate_xml" -> "sign_xml"
      [] node = "sign_xml" -> "generate_pdf"
      [] node = "generate_pdf" -> "send_to_sii"
      [] node = "send_to_sii" -> "END"

------------------------------------------------------------------------------
(* Node 2: validate_invoice_data *)

Cantidad(d) == IF "cantidad" \in d.has THEN d.cantidad ELSE 0
Precio(d) == IF "precio" \in d.has THEN d.precio ELSE 0
Total(d) == IF "total" \in d.has THEN d.total ELSE 0

RECURSIVE LineErrors_ZeroPriceAllowed(_, _)
RECURSIVE LineErrors(_, _)

\* mutant: a price of zero passes (precio < 0 for precio <= 0)
LineErrors_ZeroPriceAllowed(detalles, i) ==
    IF i > Len(detalles) THEN << >>
    ELSE (IF Cantidad(detalles[i]) <= 0
          THEN <<"Invalid quantity in line " \o ToString(i)>> ELSE << >>)
         \o (IF Precio(detalles[i]) < 0
             THEN <<"Invalid price in line " \o ToString(i)>> ELSE << >>)
         \o LineErrors_ZeroPriceAllowed(detalles, i + 1)

LineErrors(detalles, i) ==
    IF i > Len(detalles) THEN << >>
    ELSE (IF Cantidad(detalles[i]) <= 0
          THEN <<"Invalid quantity in line " \o ToString(i)>> ELSE << >>)
         \o (IF Precio(detalles[i]) <= 0
             THEN <<"Invalid price in line " \o ToString(i)>> ELSE << >>)
         \o LineErrors(detalles, i + 1)

\* mutant: the validation stops at the first error
ValidationErrors_FirstOnly(st) ==
    IF Len(st.receptor_rut) < 9 THEN <<"Invalid receptor RUT format">>
    ELSE IF Len(st.detalles) = 0 THEN <<"At least one line item is required">>
    ELSE IF LineErrors(st.detalles, 1) = << >> THEN << >>
    ELSE <<LineErrors(st.detalles, 1)[1]>>

ValidationErrors(st) ==
    (IF Len(st.receptor_rut) < 9 THEN <<"Invalid receptor RUT format">> ELSE << >>)
    \o (IF Len(st.detalles) = 0 THEN <<"At least one line item is required">> ELSE << >>)
    \o LineErrors(st.detalles, 1)

\* cantidad <= 0 on a value that is no number raises TypeError; the node has no
\* try/except.
ValidateRaises(st) == \E i \in 1..Len(st.detalles) :
                         "cantidad" \in st.detalles[i].has /\ ~st.detalles[i].numeric

RECURSIVE SumTotal(_, _)
SumTotal(detalles, i) ==
    IF i > Len(detalles) THEN 0 ELSE Total(detalles[i]) + SumTotal(detalles, i + 1)

IVA_RATE == 19

TotalNeto(detalles) == SumTotal(detalles, 1)
\* mutant: the VAT is cut to the hundredth below
TotalIva_Truncated(total_neto, tie_up) == (total_neto * IVA_RATE) \div 100

TotalIva(total_neto, tie_up) == RoundDiv(total_neto * IVA_RATE, 100, tie_up)
\* mutant: the VAT is left out of the total
TotalConIva_NetOnly(total_neto, total_iva) == total_neto

TotalConIva(total_neto, total_iva) == total_neto + total_iva

\* mutant: a valid request goes straight to 'signing'
validate_invoice_data_SkipsStatus(st, tie_up) ==
    IF ValidationErrors(st) # << >>
    THEN Failed(st, ValidationErrors(st))
    ELSE [st EXCEPT !.monto_neto = Some(TotalNeto(st.detalles)),
                    !.monto_iva = Some(TotalIva(TotalNeto(st.detalles), tie_up)),
                    !.monto_total = Some(TotalConIva(TotalNeto(st.detalles),
                                                     TotalIva(TotalNeto(st.detalles), tie_up))),
                    !.status = "signing"]

\* tie_up: which way round() takes a VAT that lies halfway (see RoundDiv)
validate_invoice_data(st, tie_up) ==
    LET errors == ValidationErrors(st)
        total_neto == TotalNeto(st.detalles)
        total_iva == TotalIva(total_neto, tie_up)
    IN IF errors # << >>
       THEN Failed(st, errors)
       ELSE [st EXCEPT !.monto_neto = Some(total_neto),
                       !.monto_iva = Some(total_iva),
                       !.monto_total = Some(TotalConIva(total_neto, total_iva)),
                       !.status = "generating_xml"]

------------------------------------------------------------------------------
(* Node 1: assign_folio *)

DEMO_FOLIO_MIN == 100000
DEMO_FOLIO_MAX == 999999

\* random.randint(100000, 999999): the values of the band the model tries
DemoFolios == (DEMO_FOLIO_MIN..(DEMO_FOLIO_MIN + DemoSamples - 1)) \cup {DEMO_FOLIO_MAX}

\* folio is what get_next_folio returned, demo the random draw used when that
\* is None
assign_folio(st, folio, demo) ==
    [st EXCEPT !.folio = IF folio = None THEN Some(demo) ELSE folio,
               !.status = "validating"]

------------------------------------------------------------------------------
(* Node 3: generate_xml_dte *)

\* int() of an amount in hundredths
IntOf(amount) == IF amount >= 0 THEN amount \div 100 ELSE -((-amount) \div 100)

\* detalle['descripcion'], ['cantidad'], ['precio'], ['total'] raise KeyError
\* on a dict without the key
XmlRaises(st) == \E i \in 1..Len(st.detalles) : st.detalles[i].has # ItemKeys

XmlItems(detalles) ==
    [i \in 1..Len(detalles) |->
        [NroLinDet |-> i, NmbItem |-> detalles[i].descripcion,
         QtyItem |-> detalles[i].cantidad, PrcItem |-> IntOf(detalles[i].precio),
         MontoItem |-> IntOf(detalles[i].total)]]

XmlDte(st) ==
    [TipoDTE |-> st.tipo_dte, Folio |-> Val(st.folio), RUTEmisor |-> EMPRESA_RUT,
     RUTRecep |-> st.receptor_rut,
     MntNeto |-> IntOf(Val(st.monto_neto)), TasaIVA |-> IVA_RATE,
     IVA |-> IntOf(Val(st.monto_iva)), MntTotal |-> IntOf(Val(st.monto_total)),
     Detalle |-> XmlItems(st.detalles), Signature |-> ""]

generate_xml_dte(st) ==
    IF XmlRaises(st)
    THEN Failed(st, <<"Error generating XML">>)
    ELSE [st EXCEPT !.xml_dte = Some(XmlDte(st)), !.status = "signing"]

------------------------------------------------------------------------------
(* Node 4: sign_xml_dte *)

\* state["xml_dte"].replace(...) raises AttributeError on None
SignRaises(st) == st.xml_dte = None

sign_xml_dte(st) ==
    IF SignRaises(st)
    THEN Failed(st, <<"Error signing XML">>)
    ELSE [st EXCEPT !.xml_signed =
                       Some([Val(st.xml_dte) EXCEPT !.Signature = "MOCK_SIGNATURE_FOR_MVP_DEMO"]),
                    !.status = "generating_pdf"]

------------------------------------------------------------------------------
(* Node 5: generate_pdf_invoice *)

\* f"TRACK-{uuid.uuid4().hex[:8].upper()}": two of the tokens
TrackIds == {"TRACK-0A1B2C3D", "TRACK-9F8E7D6C"}

PdfBytes(st, track_id) == [folio |-> Val(st.folio), track_id |-> track_id]

PdfUrl(st) == <<"/api/invoices/", Val(st.folio), "/pdf">>

\* pdf_ok = FALSE: generate_invoice_pdf.invoke raises
generate_pdf_invoice(st, track_id, pdf_ok) ==
    IF ~pdf_ok
    THEN Failed(st, <<"Error generating PDF">>)
    ELSE [st EXCEPT !.pdf_bytes = Some(PdfBytes(st, track_id)),
                    !.pdf_url = Some(PdfUrl(st)),
                    !.track_id = Some(track_id),
                    !.status = "sending"]

------------------------------------------------------------------------------
(* Node 6: send_to_sii *)

\* save_invoice: the row inserted, by table and folio (the other columns
\* repeat the state)
SavedInvoice(st) ==
    [table |-> IF st.tipo_dte = 39 THEN "boletas_electronicas" ELSE "facturas_electronicas",
     folio |-> st.folio, estado_sii |-> "aceptado"]

\* log_sii_operation: the row inserted, by document
LoggedOperation(st) ==
    [tipo_operacion |-> "enviar_sii", documento_tipo |-> st.tipo_dte,
     documento_folio |-> st.folio, estado |-> "exito"]

\* mutant: the demo track id is used whatever the state holds
GetTrackId_AlwaysDemo(st) == Some("TRACK-DEMO")

\* state.get("track_id", f"TRACK-DEMO-{state['folio']}"): the state always
\* holds the key track_id, so get returns its value, None included
GetTrackId(st) == st.track_id

\* mutant: the status is not set
send_to_sii_StatusNotSet(st) ==
    [st EXCEPT !.track_id = GetTrackId(st), !.confidence_score = Some(1)]

send_to_sii(st) ==
    [st EXCEPT !.track_id = GetTrackId(st), !.status = "completed",
               !.confidence_score = Some(1)]

------------------------------------------------------------------------------
(* execute_invoice_generation: the result handed to the caller *)

\* mutant: only the first error is reported
FailureResult_FirstOnly(errors) ==
    [success |-> FALSE, errors |-> IF errors = << >> THEN errors ELSE <<errors[1]>>]

FailureResult(errors) == [success |-> FALSE, errors |-> errors]

SuccessResult(st) ==
    [success |-> TRUE, folio |-> st.folio, track_id |-> st.track_id,
     pdf_url |-> st.pdf_url, monto_total |-> st.monto_total,
     estado_sii |-> "aceptado", pdf_bytes |-> st.pdf_bytes]

\* lines 475-489: the result built from the state ainvoke returned
ResultOf(st) ==
    IF st.status = "failed" THEN FailureResult(st.errors) ELSE SuccessResult(st)

------------------------------------------------------------------------------
(* Spec: one invocation of execute_invoice_generation at a time *)

Invoke ==
    /\ pc \in {"idle", "returned"}
    /\ runs < MaxRuns
    /\ \E req \in Requests : state' = InitialState(req)
    /\ pc' = "assign_folio"
    /\ result' = None
    /\ gnf' = NoCall
    /\ runs' = runs + 1
    /\ UNCHANGED <<folios_asignados, documentos, logs_sii>>
    /\ UNCHANGED fvars
    /\ UNCHANGED avars

AssignFolio ==
    /\ pc = "assign_folio"
    /\ \E db_up \in BOOLEAN, demo \in DemoFolios :
         LET call == GetNextFolio(folios_asignados, state.tipo_dte, EMPRESA_RUT, db_up)
         IN /\ folios_asignados' = call.table
            /\ gnf' = [ret |-> call.ret, error |-> call.error]
            /\ state' = ApplyUpdate(state, assign_folio(state, call.ret, demo))
            /\ pc' = NextNode("assign_folio", state')
    /\ UNCHANGED <<result, runs, documentos, logs_sii>>
    /\ UNCHANGED fvars
    /\ UNCHANGED avars

ValidateData ==
    /\ pc = "validate_data"
    /\ IF ValidateRaises(state)
       THEN /\ pc' = "raised"
            /\ state' = state
       ELSE /\ \E tie_up \in BOOLEAN :
                 state' = ApplyUpdate(state, validate_invoice_data(state, tie_up))
            /\ pc' = NextNode("validate_data", state')
    /\ UNCHANGED <<folios_asignados, result, gnf, runs, documentos, logs_sii>>
    /\ UNCHANGED fvars
    /\ UNCHANGED avars

GenerateXml ==
    /\ pc = "generate_xml"
    /\ state' = ApplyUpdate(state, generate_xml_dte(state))
    /\ pc' = NextNode("generate_xml", state')
    /\ UNCHANGED <<folios_asignados, result, gnf, runs, documentos, logs_sii>>
    /\ UNCHANGED fvars
    /\ UNCHANGED avars

SignXml ==
    /\ pc = "sign_xml"
    /\ state' = ApplyUpdate(state, sign_xml_dte(state))
    /\ pc' = NextNode("sign_xml", state')
    /\ UNCHANGED <<folios_asignados, result, gnf, runs, documentos, logs_sii>>
    /\ UNCHANGED fvars
    /\ UNCHANGED avars

GeneratePdf ==
    /\ pc = "generate_pdf"
    /\ \E track_id \in TrackIds, pdf_ok \in BOOLEAN :
         state' = ApplyUpdate(state, generate_pdf_invoice(state, track_id, pdf_ok))
    /\ pc' = NextNode("generate_pdf", state')
    /\ UNCHANGED <<folios_asignados, result, gnf, runs, documentos, logs_sii>>
    /\ UNCHANGED fvars
    /\ UNCHANGED avars

\* mutant: an insert that raises reaches send_to_sii's outer except
SendToSii_PersistenceFails ==
    /\ pc = "send_to_sii"
    /\ \E save_ok \in BOOLEAN, log_ok \in BOOLEAN :
         /\ documentos' = IF save_ok THEN documentos \cup {SavedInvoice(state)} ELSE documentos
         /\ logs_sii' = IF log_ok THEN logs_sii \cup {LoggedOperation(state)} ELSE logs_sii
         /\ state' = IF save_ok /\ log_ok
                     THEN ApplyUpdate(state, send_to_sii(state))
                     ELSE ApplyUpdate(state, Failed(state, <<"Error sending to SII">>))
    /\ pc' = NextNode("send_to_sii", state')
    /\ UNCHANGED <<folios_asignados, result, gnf, runs>>
    /\ UNCHANGED fvars
    /\ UNCHANGED avars

\* save_ok / log_ok = FALSE: the insert raises inside save_invoice /
\* log_sii_operation, which print the error and return
SendToSii ==
    /\ pc = "send_to_sii"
    /\ \E save_ok \in BOOLEAN, log_ok \in BOOLEAN :
         /\ documentos' = IF save_ok THEN documentos \cup {SavedInvoice(state)} ELSE documentos
         /\ logs_sii' = IF log_ok THEN logs_sii \cup {LoggedOperation(state)} ELSE logs_sii
    /\ state' = ApplyUpdate(state, send_to_sii(state))
    /\ pc' = NextNode("send_to_sii", state')
    /\ UNCHANGED <<folios_asignados, result, gnf, runs>>
    /\ UNCHANGED fvars
    /\ UNCHANGED avars

\* ainvoke returned (pc = "END") or raised (pc = "raised"); the except clause
\* turns the exception into a failure result
Return ==
    /\ pc \in {"END", "raised"}
    /\ result' = IF pc = "raised"
                 THEN Some(FailureResult(<<"Workflow execution error">>))
                 ELSE Some(ResultOf(state))
    /\ pc' = "returned"
    /\ UNCHANGED <<folios_asignados, state, gnf, runs, documentos, logs_sii>>
    /\ UNCHANGED fvars
    /\ UNCHANGED avars

------------------------------------------------------------------------------
(* Initial state *)

\* One active range for (39, EMPRESA_RUT), anywhere from untouched to fully
\* issued, and an older range of the same key that is already exhausted.
FolioTables ==
    {[id \in RangeIds |->
        IF id = 1
        THEN [tipo_dte |-> 39, rut_empresa |-> EMPRESA_RUT, folio_actual |-> fa,
              folio_hasta |-> FIRST_FOLIO + FolioSpan, estado |-> "activo"]
        ELSE [tipo_dte |-> 39, rut_empresa |-> EMPRESA_RUT, folio_actual |-> FIRST_FOLIO - 1,
              folio_hasta |-> FIRST_FOLIO - 1, estado |-> "agotado"]]
     : fa \in FIRST_FOLIO..(FIRST_FOLIO + FolioSpan)}

Init ==
    /\ folios_asignados \in FolioTables
    /\ cpc = [c \in Callers |-> "idle"]
    /\ ctipo = [c \in Callers |-> 39]
    /\ folio_range = [c \in Callers |-> NoRow]
    /\ cret = [c \in Callers |-> None]
    /\ cerr = [c \in Callers |-> ""]
    /\ pc = "idle"
    /\ state = InitialState(NoRequest)
    /\ result = None
    /\ gnf = NoCall
    /\ runs = 0
    /\ documentos = {}
    /\ logs_sii = {}
    /\ autofill_patterns = << >>
    /\ ipf = [c \in Callers |-> IpfIdle]
    /\ autofill = NoPrediction

vars == <<folios_asignados, cpc, ctipo, folio_range, cret, cerr,
          pc, state, result, gnf, runs, documentos, logs_sii,
          autofill_patterns, ipf, autofill>>

Next ==
    \/ Invoke
    \/ AssignFolio
    \/ ValidateData
    \/ GenerateXml
    \/ SignXml
    \/ GeneratePdf
    \/ SendToSii
    \/ Return

Spec == Init /\ [][Next]_vars

FolioNext == \E c \in Callers : GnfSelect(c) \/ GnfUpdate(c)

FolioSpec == Init /\ [][FolioNext]_vars

PatternNext == \E c \in Callers : IpfSelect(c) \/ IpfWrite(c)

PatternSpec == Init /\ [][PatternNext]_vars

AutofillInit ==
    /\ folios_asignados \in {t \in FolioTables : t[1].folio_actual = FIRST_FOLIO}
    /\ cpc = [c \in Callers |-> "idle"]
    /\ ctipo = [c \in Callers |-> 39]
    /\ folio_range = [c \in Callers |-> NoRow]
    /\ cret = [c \in Callers |-> None]
    /\ cerr = [c \in Callers |-> ""]
    /\ pc = "idle"
    /\ state = InitialState(NoRequest)
    /\ result = None
    /\ gnf = NoCall
    /\ runs = 0
    /\ documentos = {}
    /\ logs_sii = {}
    /\ autofill_patterns = << >>
    /\ ipf = [c \in Callers |-> IpfIdle]
    /\ \E patterns \in PatternLists, current_value \in CurrentValues, contexto \in Contextos :
         autofill = [NoPrediction EXCEPT !.patterns = patterns,
                                         !.current_value = current_value,
                                         !.contexto = contexto]

AutofillNext == Predict

AutofillSpec == AutofillInit /\ [][AutofillNext]_vars

\* ValSpec: the engine is about to run validate_data on a request of
\* ValRequests, whose folio the store has issued.
ValInit ==
    /\ folios_asignados \in {t \in FolioTables : t[1].folio_actual = FIRST_FOLIO + 1}
    /\ cpc = [c \in Callers |-> "idle"]
    /\ ctipo = [c \in Callers |-> 39]
    /\ folio_range = [c \in Callers |-> NoRow]
    /\ cret = [c \in Callers |-> None]
    /\ cerr = [c \in Callers |-> ""]
    /\ pc = "validate_data"
    /\ \E req \in ValRequests :
         state = assign_folio(InitialState(req), Some(FIRST_FOLIO + 1), DEMO_FOLIO_MIN)
    /\ result = None
    /\ gnf = [ret |-> Some(FIRST_FOLIO + 1), error |-> ""]
    /\ runs = 1
    /\ documentos = {}
    /\ logs_sii = {}
    /\ autofill_patterns = << >>
    /\ ipf = [c \in Callers |-> IpfIdle]
    /\ autofill = NoPrediction

ValNext == ValidateData

ValSpec == ValInit /\ [][ValNext]_vars

\* validate_data followed by generate_xml, the edge taken when validation
\* leaves the status unfailed
XmlNext == ValidateData \/ GenerateXml

XmlSpec == ValInit /\ [][XmlNext]_vars

------------------------------------------------------------------------------
(* Folio allocation under concurrency (FolioSpec) *)

\* The calls that returned a folio of the range with id 1, key (39, EMPRESA_RUT)
Issuers == {c \in Callers : cpc[c] = "done" /\ cret[c] # None}

IssuedFolios == {Val(cret[c]) : c \in Issuers}

\* C1: once every get_next_folio call made on the key has returned and the
\* range never ran out, the N folios returned are pairwise distinct and are
\* the N consecutive numbers that end at the stored folio_actual
\* (current+1 .. current+N).
C1_ConcurrentFoliosDistinctContiguous ==
    (/\ \A c \in Callers : cpc[c] \in {"idle", "done"}
     /\ folios_asignados[1].estado = "activo")
    => /\ Cardinality(IssuedFolios) = Cardinality(Issuers)
       /\ IssuedFolios = (folios_asignados[1].folio_actual - Cardinality(Issuers) + 1)
                            .. folios_asignados[1].folio_actual

\* A call takes its update step / its select step
Updates(c) == cpc[c] = "selected" /\ cpc'[c] = "done"
Selects(c) == cpc[c] = "idle" /\ cpc'[c] # "idle"

\* C3: a call whose next folio exceeds folio_hasta returns no folio and leaves
\* the range 'agotado'; an exhausted range stays exhausted; and every call for
\* the key that starts once the range is exhausted returns no folio.
C3_ExhaustedRangeStaysUnusable ==
    [][\A c \in Callers :
         /\ (Updates(c) /\ IsExhausted(folio_range[c]))
               => /\ cret'[c] = None
                  /\ folios_asignados'[folio_range[c].id].estado = "agotado"
         /\ \A id \in RangeIds :
               folios_asignados[id].estado = "agotado"
                  => folios_asignados'[id].estado = "agotado"
         /\ (Selects(c) /\ ctipo'[c] = 39
               /\ \A id \in RangeIds : folios_asignados[id].estado = "agotado")
               => cpc'[c] = "done" /\ cret'[c] = None]_vars

\* C3 witness: one call marked range 1 exhausted and another call for the key,
\* made afterwards, found no active range
C3_Witness ==
    /\ folios_asignados[1].estado = "agotado"
    /\ \E c, d \in Callers :
         /\ c # d
         /\ cpc[c] = "done" /\ cerr[c] = "Folios exhausted" /\ cret[c] = None
         /\ cpc[d] = "done" /\ ctipo[d] = 39 /\ cerr[d] = "No active folios found"
         /\ cret[d] = None

\* C6: once a range is 'agotado' no step writes its folio_actual and no call
\* returns a folio from it.
C6_NoWriteAfterExhaustion ==
    [][\A id \in RangeIds :
         folios_asignados[id].estado = "agotado"
            => /\ folios_asignados'[id].folio_actual = folios_asignados[id].folio_actual
               /\ \A c \in Callers :
                    (Updates(c) /\ folio_range[c].id = id) => cret'[c] = None]_vars

------------------------------------------------------------------------------
(* The invoice workflow (Spec) *)

Nodes == {"assign_folio", "validate_data", "generate_xml", "sign_xml",
          "generate_pdf", "send_to_sii"}

\* C2: once the status is 'failed' no node runs: the state is left as it is
\* and the engine goes to END and returns.
C2_FailedStepIsLast ==
    [][(state.status = "failed" /\ pc # "returned")
          => (state' = state /\ pc' \in {"END", "returned"})]_vars

\* C4: a run whose get_next_folio found the key's range exhausted ends with
\* status 'failed' and success = false.
C4_ExhaustedRangeFailsInvoice ==
    (pc = "returned" /\ gnf.error = "Folios exhausted")
       => (state.status = "failed" /\ ~Val(result).success)

\* C5: get_next_folio, called alone on an active range with folio_actual + 1
\* <= folio_hasta and a store that answers, returns folio_actual + 1 and
\* leaves that value stored as folio_actual.
C5_SequentialCallIssuesNext ==
    [][(pc = "assign_folio" /\ pc' # "assign_folio" /\ gnf'.error # "store error")
          => \A id \in SelectActive(folios_asignados, state.tipo_dte, EMPRESA_RUT) :
               folios_asignados[id].folio_actual + 1 <= folios_asignados[id].folio_hasta
                  => /\ gnf'.ret = Some(folios_asignados[id].folio_actual + 1)
                     /\ folios_asignados'[id].folio_actual = Val(gnf'.ret)
                     /\ state'.folio = gnf'.ret]_vars

\* C5 witness: two runs in a row each took a folio from the range, the second
\* run's folio is the stored counter
C5_Witness ==
    /\ runs = 2
    /\ pc = "validate_data"
    /\ gnf.ret # None
    /\ folios_asignados[1].folio_actual = Val(gnf.ret)
    /\ \E d \in documentos : d.folio = Some(Val(gnf.ret) - 1)

\* C7: a failure result holds success and errors and nothing else, and its
\* errors are all the errors the run accumulated (followed by the engine's own
\* error when a node raised).
C7_FailureCarriesAllErrorsNoPayload ==
    (pc = "returned" /\ ~Val(result).success)
       => /\ DOMAIN Val(result) = {"success", "errors"}
          /\ Val(result).errors =
                state.errors \o (IF state.status = "failed" THEN << >>
                                 ELSE <<"Workflow execution error">>)

\* C7 witness: a run that failed with several errors after its folio was set
C7_Witness ==
    /\ pc = "returned"
    /\ ~Val(result).success
    /\ Len(Val(result).errors) >= 2
    /\ state.folio # None

\* C8: a success result has a folio, a track id, PDF bytes and a total.
C8_SuccessHasEveryOutput ==
    (pc = "returned" /\ Val(result).success)
       => /\ Val(result).folio # None
          /\ Val(result).track_id # None
          /\ Val(result).pdf_bytes # None
          /\ Val(result).monto_total # None

\* The steps the engine takes on its own once invoked; asyncio runs the
\* invoked coroutine to its end.
Engine ==
    \/ AssignFolio
    \/ ValidateData
    \/ GenerateXml
    \/ SignXml
    \/ GeneratePdf
    \/ SendToSii
    \/ Return

LiveSpec == Init /\ [][Next]_vars /\ WF_vars(Engine)

\* C9: every invocation comes to return a result with a boolean success (a
\* node's exception is turned into a failure result, none escapes), and the
\* state ainvoke returns has status 'completed' (success) or 'failed'.
C9_AlwaysReturnsStructuredResult ==
    /\ [](pc = "returned"
            => /\ result # None
               /\ Val(result).success \in BOOLEAN
               /\ Val(result).success => state.status = "completed"
               /\ ~Val(result).success
                    => \/ state.status = "failed"
                       \/ Val(result).errors = <<"Workflow execution error">>)
    /\ (pc \in Nodes \cup {"END", "raised"}) ~> (pc = "returned")

\* C9 witness: both kinds of return happened: a node raised and the caller
\* still got a failure result
C9_Witness ==
    /\ pc = "returned"
    /\ ~Val(result).success
    /\ Val(result).errors = <<"Workflow execution error">>

StatusOrder == <<"pending", "validating", "generating_xml", "signing",
                 "generating_pdf", "sending", "completed">>

Position(status) == CHOOSE i \in 1..Len(StatusOrder) : StatusOrder[i] = status

\* C10: an invocation starts 'pending'; every node that runs while no step has
\* failed either fails or moves the status to the next value of StatusOrder;
\* no status outside StatusOrder and 'failed' is ever taken.
C10_StatusFollowsOrder ==
    [][/\ state'.status \in {StatusOrder[i] : i \in 1..Len(StatusOrder)} \cup {"failed"}
       /\ (pc \in {"idle", "returned"} /\ pc' = "assign_folio")
             => state'.status = StatusOrder[1]
       /\ (pc \in Nodes /\ pc' # "raised" /\ state.status # "failed")
             => \/ state'.status = "failed"
                \/ Position(state'.status) = Position(state.status) + 1]_vars

\* C10 witness: a run with no failure reached 'completed'
C10_Witness ==
    /\ pc = "returned"
    /\ state.status = "completed"
    /\ state.errors = << >>
    /\ Val(result).success

------------------------------------------------------------------------------
(* validate_invoice_data on its own (ValSpec) *)

\* validate_invoice_data has returned (it did not raise)
Validated == pc \in {"END", "generate_xml"}

BadRut(st) == Len(st.receptor_rut) < 9
NoItems(st) == Len(st.detalles) = 0
BadQuantityLines(st) == {i \in 1..Len(st.detalles) : Cantidad(st.detalles[i]) <= 0}
BadPriceLines(st) == {i \in 1..Len(st.detalles) : Precio(st.detalles[i]) <= 0}

Range(seq) == {seq[i] : i \in 1..Len(seq)}

\* C11: validate_invoice_data reports every violation in one pass: its errors
\* hold the RUT error when the RUT is invalid, the no-item error when there is
\* no line, and one error per line with a quantity <= 0 and one per line with
\* a price <= 0, each naming its line; nothing else and nothing twice.
C11_EveryViolationReported ==
    Validated =>
       /\ BadRut(state) <=> "Invalid receptor RUT format" \in Range(state.errors)
       /\ NoItems(state) <=> "At least one line item is required" \in Range(state.errors)
       /\ \A i \in 1..Len(state.detalles) :
             /\ i \in BadQuantityLines(state)
                   <=> ("Invalid quantity in line " \o ToString(i)) \in Range(state.errors)
             /\ i \in BadPriceLines(state)
                   <=> ("Invalid price in line " \o ToString(i)) \in Range(state.errors)
       /\ Len(state.errors) = (IF BadRut(state) THEN 1 ELSE 0)
                                + (IF NoItems(state) THEN 1 ELSE 0)
                                + Cardinality(BadQuantityLines(state))
                                + Cardinality(BadPriceLines(state))

\* C11 witness: an invalid RUT and a line with quantity <= 0 were both reported
C11_Witness ==
    /\ Validated
    /\ BadRut(state)
    /\ BadQuantityLines(state) # {}
    /\ Len(state.errors) >= 2
    /\ state.status = "failed"

\* The request has a RUT of at least 9 characters and at least one line, and
\* every line holds a quantity > 0 and a unit price > 0
WellFormed(st) ==
    /\ Len(st.receptor_rut) >= 9
    /\ Len(st.detalles) >= 1
    /\ \A i \in 1..Len(st.detalles) :
          LET d == st.detalles[i]
          IN /\ "cantidad" \in d.has /\ d.numeric /\ d.cantidad > 0
             /\ "precio" \in d.has /\ d.precio > 0

\* C12: validate_invoice_data accepts a request (returns without setting the
\* status 'failed', so that generate_xml runs next) if and only if the
\* receptor RUT has at least 9 characters, there is at least one line item and
\* every line item has a quantity > 0 and a unit price > 0.
C12_AcceptsIffWellFormed ==
    (pc # "validate_data")
       => /\ (pc = "generate_xml" /\ state.status # "failed") <=> WellFormed(state)
          /\ (pc = "END" /\ state.status = "failed")
                <=> (~WellFormed(state) /\ ~ValidateRaises(state))

\* C12 witness: a request of several lines, all of them well formed, was
\* accepted
C12_Witness ==
    /\ pc = "generate_xml"
    /\ state.status = "generating_xml"
    /\ Len(state.detalles) >= 2
    /\ Len(state.receptor_rut) = 9

RECURSIVE LineTotals(_)
LineTotals(detalles) ==
    IF detalles = << >> THEN 0 ELSE Total(Head(detalles)) + LineTotals(Tail(detalles))

\* C13: for every request that passes validation the net amount is the sum of
\* the lines' total fields, the VAT is the net amount times 0.19 rounded to the
\* nearest hundredth (at most half a hundredth away from it), and the total is
\* the net amount plus the VAT.
C13_TotalsFromLines ==
    (pc = "generate_xml")
       => LET net == Val(state.monto_neto)
              vat == Val(state.monto_iva)
          IN /\ net = LineTotals(state.detalles)
             /\ 2 * (100 * vat - IVA_RATE * net) \in -100..100
             /\ Val(state.monto_total) = net + vat

\* C13 witness: two lines were summed and their VAT had to be rounded up
C13_Witness ==
    /\ pc = "generate_xml"
    /\ Len(state.detalles) = 2
    /\ Val(state.monto_neto) = 10130
    /\ Val(state.monto_iva) = 1925
    /\ Val(state.monto_total) = 12055

------------------------------------------------------------------------------
(* The invoice workflow, continued (Spec) *)

\* The first run was made with the request ReqBoleta (Boleta 39, receptor
\* "20.210.808-K", one line of quantity 1, price 35000, total 35000), the
\* store issued its folio from a counter that stood at FIRST_FOLIO, and no
\* step reported an error
BoletaRunDone ==
    /\ pc = "returned"
    /\ runs = 1
    /\ InitialState(ReqBoleta) = [state EXCEPT !.folio = None, !.xml_dte = None,
                                     !.xml_signed = None, !.pdf_bytes = None,
                                     !.pdf_url = None, !.track_id = None,
                                     !.monto_neto = None, !.monto_iva = None,
                                     !.monto_total = None, !.status = "pending",
                                     !.errors = << >>, !.confidence_score = None]
    /\ gnf.ret # None
    /\ folios_asignados[1].folio_actual = FIRST_FOLIO + 1
    /\ state.errors = << >>

\* C14: the Boleta of the example, run against an active range whose counter
\* is FIRST_FOLIO (100), ends with folio FIRST_FOLIO + 1 (101), net 35000.00,
\* VAT 6650.00, total 41650.00, status 'completed' and PDF bytes, and the
\* caller gets them in a success result.
C14_BoletaExample ==
    BoletaRunDone
       => /\ state.folio = Some(FIRST_FOLIO + 1)
          /\ state.monto_neto = Some(3500000)
          /\ state.monto_iva = Some(665000)
          /\ state.monto_total = Some(4165000)
          /\ state.status = "completed"
          /\ state.pdf_bytes # None
          /\ Val(result).success
          /\ Val(result).folio = state.folio
          /\ Val(result).monto_total = state.monto_total
          /\ Val(result).pdf_bytes = state.pdf_bytes

\* C14 witness: the example run has returned its success result
C14_Witness ==
    /\ BoletaRunDone
    /\ state.status = "completed"
    /\ Val(result).success
    /\ Val(result).monto_total = Some(4165000)

\* C15: a folio the store issued stays consumed whatever becomes of the run:
\* no step lowers a folio_actual, only assign_folio writes the folio table,
\* from the step after assign_folio up to the start of the next run the
\* counter of the issuing range (id 1) is no lower than the folio issued, and
\* every folio the store issues is larger than the counter it found.
C15_FolioStaysConsumed ==
    [][/\ \A id \in RangeIds :
            folios_asignados'[id].folio_actual >= folios_asignados[id].folio_actual
       /\ (pc # "assign_folio") => folios_asignados' = folios_asignados
       /\ (pc \notin {"idle", "assign_folio"} /\ gnf.ret # None)
             => /\ state.folio = gnf.ret
                /\ folios_asignados'[1].folio_actual >= Val(state.folio)
       /\ (pc = "assign_folio" /\ gnf'.ret # None)
             => \A id \in SelectActive(folios_asignados, state.tipo_dte, EMPRESA_RUT) :
                  Val(gnf'.ret) > folios_asignados[id].folio_actual]_vars

\* C15 witness: validation rejected the second run after the store had issued
\* its folio, and the counter still stands at that folio
C15_Witness ==
    /\ pc = "returned"
    /\ runs = 2
    /\ state.status = "failed"
    /\ ~Val(result).success
    /\ gnf.ret # None
    /\ state.xml_dte = None
    /\ folios_asignados[1].folio_actual = Val(state.folio)

\* C16: when the store raises during assign_folio the run does not fail
\* there: it goes on to validate_data with a folio of the demo band
\* DEMO_FOLIO_MIN..DEMO_FOLIO_MAX, and the state (of which the result is a
\* function) marks that folio as a demo folio, that is, it is not the state
\* that a folio of the same number issued by the store would have left.
C16_DemoFolioIsMarked ==
    [][(pc = "assign_folio" /\ gnf'.error = "store error")
          => /\ pc' = "validate_data"
             /\ state'.status # "failed"
             /\ Val(state'.folio) \in DEMO_FOLIO_MIN..DEMO_FOLIO_MAX
             /\ state' # ApplyUpdate(state, assign_folio(state, state'.folio, DEMO_FOLIO_MIN))]_vars

\* The outputs a run accumulates
Outputs == {"folio", "monto_neto", "monto_iva", "monto_total", "xml_dte",
            "xml_signed", "pdf_bytes", "track_id"}

\* The steps of one run: a node's, or the return
InRun == pc \in Nodes \cup {"END", "raised"}

\* C17: within a run, an output (folio, monto_neto, monto_iva, monto_total,
\* xml_dte, xml_signed, pdf_bytes, track_id) that is not None keeps its value
\* through every later step, the failing ones included.
C17_OutputsAreWriteOnce ==
    [][InRun => \A f \in Outputs : state[f] # None => state'[f] = state[f]]_vars

\* C17 witness: the PDF step failed after the folio, the amounts and both
\* XMLs were set, send_to_sii ran after it, and they are all still there
C17_Witness ==
    /\ pc = "returned"
    /\ "Error generating PDF" \in Range(state.errors)
    /\ state.status = "completed"
    /\ \A f \in Outputs \ {"pdf_bytes", "track_id"} : state[f] # None

IsPrefix(s, t) == Len(s) <= Len(t) /\ SubSeq(t, 1, Len(s)) = s

\* C18: the errors list is append-only: after every step of a run the list
\* has the list of before the step as a prefix.
C18_ErrorsAppendOnly ==
    [][InRun => IsPrefix(state.errors, state'.errors)]_vars

\* C18 witness: two steps failed one after the other and the first step's
\* error still heads the list
C18_Witness ==
    /\ pc = "returned"
    /\ Len(state.errors) >= 3
    /\ state.errors[1] = "Error generating XML"
    /\ "Error signing XML" \in Range(state.errors)

\* C19: when send_to_sii runs and the invoice insert or the audit-log insert
\* does not happen, the step still ends with status 'completed' and reported
\* acceptance (confidence 1.0, a success result with estado_sii 'aceptado'),
\* and the errors list gets no error that was not in it: it stays empty when
\* it was empty.
C19_PersistenceFailureIsSwallowed ==
    [][(/\ pc = "send_to_sii"
        /\ \/ SavedInvoice(state) \notin documentos'
           \/ LoggedOperation(state) \notin logs_sii')
          => /\ state'.status = "completed"
             /\ state'.confidence_score = Some(1)
             /\ ResultOf(state').success
             /\ ResultOf(state').estado_sii = "aceptado"
             /\ Range(state'.errors) = Range(state.errors)
             /\ state.errors = << >> => state'.errors = << >>]_vars

\* C19 witness: a run returned success although neither the invoice nor the
\* audit record was stored
C19_Witness ==
    /\ pc = "returned"
    /\ state.status = "completed"
    /\ Val(result).success
    /\ Val(result).estado_sii = "aceptado"
    /\ state.errors = << >>
    /\ documentos = {}
    /\ logs_sii = {}

\* C20: a state that send_to_sii returned with status 'completed' has a
\* track id: the step made one up when the PDF step had left none.
C20_CompletedHasTrackId ==
    state.status = "completed" => state.track_id # None

------------------------------------------------------------------------------
(* Pattern frequencies under concurrency (PatternSpec) *)

\* The calls that selected valor and returned True
Selections(valor) == {c \in Callers : ipf[c].valor = valor /\ ipf[c].ret = Some(TRUE)}

\* C21: once every increment_pattern_frequency call has returned, a value
\* that n >= 1 calls selected (and returned True for) has one stored pattern,
\* whose frecuencia is n.
C21_FrequencyCountsSelections ==
    (\A c \in Callers : ipf[c].pc \in {"idle", "done"})
       => \A valor \in Valores :
            Selections(valor) # {}
               => /\ Cardinality(ExistingRows(autofill_patterns, valor)) = 1
                  /\ \A id \in ExistingRows(autofill_patterns, valor) :
                       autofill_patterns[id].frecuencia = Cardinality(Selections(valor))

------------------------------------------------------------------------------
(* The autofill predictor (AutofillSpec) *)

\* C22: predict_autofill_simple returns at most 5 candidates, each with
\* confidence >= 0.6, in non-increasing order of confidence, and each is the
\* candidate of a pattern of the list whose confidence is the one reported.
C22_AtMostFiveAboveThresholdSorted ==
    autofill.called =>
       LET out == autofill.predictions
       IN /\ Len(out) <= 5
          /\ \A i \in 1..Len(out) : out[i].confidence >= 60
          /\ \A i \in 1..Len(out) : \A j \in i..Len(out) :
                out[i].confidence >= out[j].confidence
          /\ \A i \in 1..Len(out) : \E k \in 1..Len(autofill.patterns) :
                /\ autofill.patterns[k].valor = out[i].valor
                /\ autofill.patterns[k].frecuencia = out[i].frecuencia
                /\ autofill.confidences[k] = out[i].confidence

\* C22 witness: more than five patterns reached the threshold, given in
\* increasing order of confidence, and the five best came back, best first
C22_Witness ==
    /\ autofill.called
    /\ Len(autofill.predictions) = 5
    /\ Cardinality({k \in 1..Len(autofill.patterns) : autofill.confidences[k] >= 60}) > 5
    /\ autofill.confidences[1] < autofill.confidences[Len(autofill.patterns)]
    /\ autofill.predictions[1].confidence > autofill.predictions[5].confidence

\* The keys both contexts hold
Comparable(k) == KeysOf(autofill.patterns[k].contexto) \cap KeysOf(autofill.contexto)

\* Pattern k has the maximum frequency of the list, its value is the current
\* input, and every comparable context key has the same value in both contexts
TopExactMatch(k) ==
    /\ \A j \in 1..Len(autofill.patterns) :
          autofill.patterns[j].frecuencia <= autofill.patterns[k].frecuencia
    /\ autofill.patterns[k].valor = autofill.current_value
    /\ \A key \in Comparable(k) :
          autofill.patterns[k].contexto[key] = autofill.contexto[key]

\* C23 as stated: a pattern of maximum frequency whose comparable context
\* keys all match and whose value equals the input has confidence 1.0.
C23_TopExactMatchScoresOne ==
    autofill.called =>
       \A k \in 1..Len(autofill.patterns) : TopExactMatch(k) => autofill.confidences[k] = 100

\* C23 amended: a pattern of maximum frequency whose value equals the input
\* and that has at least one context key comparable with the current
\* context, all of them matching, has confidence 1.0.
C23_TopExactMatchWithContextScoresOne ==
    autofill.called =>
       \A k \in 1..Len(autofill.patterns) :
          (TopExactMatch(k) /\ Comparable(k) # {}) => autofill.confidences[k] = 100

\* C23 witness: such a pattern, holding a context key the current context
\* lacks, came back first with confidence 1.0 among other patterns
C23_Witness ==
    /\ autofill.called
    /\ Len(autofill.patterns) >= 2
    /\ \E k \in 1..Len(autofill.patterns) :
          /\ TopExactMatch(k)
          /\ Comparable(k) # {}
          /\ Comparable(k) # KeysOf(autofill.patterns[k].contexto)
          /\ autofill.confidences[k] = 100
    /\ autofill.predictions[1].confidence = 100
    /\ autofill.current_value # << >>

------------------------------------------------------------------------------
(* Folio allocation, continued (FolioSpec) *)

\* The table holds no active range for (tipo_dte, EMPRESA_RUT)
NoActiveRange(tipo_dte) ==
    \A id \in RangeIds : ~(/\ folios_asignados[id].tipo_dte = tipo_dte
                           /\ folios_asignados[id].rut_empresa = EMPRESA_RUT
                           /\ folios_asignados[id].estado = "activo")

\* C24: a get_next_folio call made when no active range exists for its key
\* ends at its select: it returns no folio and every row of folios_asignados
\* is as it was.
C24_NoActiveRangeNoWrite ==
    [][\A c \in Callers :
         (Selects(c) /\ NoActiveRange(ctipo'[c]))
            => /\ cpc'[c] = "done"
               /\ cret'[c] = None
               /\ folios_asignados' = folios_asignados]_vars

\* C24 witness: a call for tipo_dte 33, which has no range at all, returned
\* no folio while the range of tipo_dte 39 is still active and untouched
C24_Witness ==
    /\ \E c \in Callers :
          /\ cpc[c] = "done" /\ ctipo[c] = 33
          /\ cerr[c] = "No active folios found" /\ cret[c] = None
    /\ \A c \in Callers : cpc[c] = "done" => ctipo[c] = 33
    /\ folios_asignados[1].estado = "activo"

\* C27: a range's folio_actual never decreases, and every write of
\* folio_actual stores more than the value it replaces.
C27_FolioActualOnlyGrows ==
    [][\A id \in RangeIds :
         /\ folios_asignados'[id].folio_actual >= folios_asignados[id].folio_actual
         /\ \A c \in Callers :
              (Updates(c) /\ folio_range[c].id = id /\ cret'[c] # None)
                 => folios_asignados'[id].folio_actual > folios_asignados[id].folio_actual]_vars

\* C28: folio_actual never exceeds folio_hasta, and no call returns a folio
\* above the folio_hasta of the range it read.
C28_NeverBeyondFolioHasta ==
    /\ \A id \in RangeIds :
          folios_asignados[id].folio_actual <= folios_asignados[id].folio_hasta
    /\ \A c \in Callers :
          cret[c] # None => Val(cret[c]) <= folios_asignados[folio_range[c].id].folio_hasta

\* C28 witness: the last folio of the range was issued and the counter stands
\* at folio_hasta; a later call found the range exhausted and got none
C28_Witness ==
    /\ folios_asignados[1].folio_actual = folios_asignados[1].folio_hasta
    /\ folios_asignados[1].estado = "agotado"
    /\ \E c \in Callers : cpc[c] = "done" /\ cret[c] = Some(folios_asignados[1].folio_hasta)
    /\ \E c \in Callers : cpc[c] = "done" /\ cerr[c] = "Folios exhausted"

------------------------------------------------------------------------------
(* The invoice workflow, folios and errors of finished runs (Spec) *)

\* C25: no two runs that return success for the same document type and
\* issuer carry the same folio: when send_to_sii runs (the run then returns
\* success), no earlier successful run has stored an invoice of the same
\* table and folio.
C25_SuccessfulFoliosDistinct ==
    [][(pc = "send_to_sii") => SavedInvoice(state) \notin documentos]_vars

\* C26: a run that ends with status 'completed' has an empty errors list.
C26_CompletedHasNoErrors ==
    (pc = "returned" /\ state.status = "completed") => state.errors = << >>

\* C29: the errors list a run ends with holds no entry twice: each failure
\* detected appears in it once.
C29_EachFailureListedOnce ==
    (pc = "returned") => Cardinality(Range(state.errors)) = Len(state.errors)

------------------------------------------------------------------------------
(* The amounts written to the XML document (XmlSpec) *)

\* C30: the whole-unit amounts of the XML document add up: MntNeto + IVA =
\* MntTotal for every request that passed validation and was rendered.
C30_XmlAmountsAddUp ==
    state.xml_dte # None =>
        LET dte == Val(state.xml_dte)
        IN  dte.MntNeto + dte.IVA = dte.MntTotal

====
